---- MODULE Spec2Model ----
(***************************************************************************)
(* Model of scripts/pdf_processor.py (AdvancedPDFProcessor): the           *)
(* multi-strategy extraction pipeline, the keyword classifier, the         *)
(* structured-extraction gateway and the batch orchestrator.               *)
(*                                                                         *)
(* Strings are sequences of one-character strings, so that lower(),        *)
(* strip(), slicing and substring search are computed as Python computes   *)
(* them.  Python's None is the record None.                                *)
(***************************************************************************)
EXTENDS Naturals, Integers, Sequences, FiniteSets, TLC

VARIABLES
  \* ---- classify_document_type under test (SpecClassify) ----
  cpc,          \* "idle" (unused) | "ready" (arguments chosen) | "done"
  filename,     \* argument filename
  text,         \* argument text
  doc_type,     \* returned category, "" before the call returns
  \* ---- extract_carbon_data_with_ai under test (SpecGateway) ----
  gpc,          \* "idle" | "ready" | "done"
  g_text,       \* argument text
  g_tables,     \* argument tables
  g_document_type, \* argument document_type
  g_service,    \* what the chat-completions call does when it is made
  g_out,        \* outcome of the call (see extract_carbon_data_with_ai)
  \* ---- process_pdf_comprehensive under test (SpecPipeline) ----
  ppc,          \* "idle" | "ready" | "done"
  p_path,       \* argument pdf_path
  p_file,       \* what the libraries find at that path
  p_service,    \* what the chat-completions call does
  p_out,        \* outcome of the call (see process_pdf_comprehensive)
  \* ---- batch_process_pdfs (Spec) ----
  bpc,          \* "idle" | "loop" (in the for loop) | "done" | "raised"
  pdf_paths,    \* argument pdf_paths
  idx,          \* number of paths the loop has gone through
  results,      \* local results
  successful,   \* local successful
  failed,       \* local failed
  disk,         \* writes to output_dir, in order: name, content, complete
  batch_summary, \* the returned batch_summary, None until it is built
  outcomes,     \* per path gone through: "ok", "pipeline_raised", "write_raised"
  degraded_log, \* per path gone through: did the gateway's except branch run
  \* ---- process_pdf_comprehensive run twice on one processor (SpecRerun) ----
  rpc,          \* "idle" | "first" | "second" | "done"
  r_path,       \* argument pdf_path of both runs
  r_file,       \* what the libraries find at that path, both times
  r_service,    \* what the chat-completions call does, both times
  r_live,       \* the native result dict the first run built and returned
  r_first,      \* outcome of the first run
  r_second,     \* outcome of the second run
  \* ---- DataRecognitionAgent (SpecValidate) ----
  vpc,          \* "idle" | "ready" | "validated" | "done"
  v_mapped,     \* argument mapped_data of validate_mapped_data
  v_out,        \* what validate_mapped_data returned
  v_file,       \* what process_file returned for a file
  \* ---- shared ----
  clock         \* datetime.now()

bvars == <<bpc, pdf_paths, idx, results, successful, failed, disk,
           batch_summary, outcomes, degraded_log>>
rvars == <<rpc, r_path, r_file, r_service, r_live, r_first, r_second>>
vvars == <<vpc, v_mapped, v_out, v_file>>
pvars == <<ppc, p_path, p_file, p_service, p_out>>
cvars == <<cpc, filename, text, doc_type>>
gvars == <<gpc, g_text, g_tables, g_document_type, g_service, g_out>>
vars == <<cvars, gvars, pvars, bvars, rvars, vvars, clock>>

None == [none |-> TRUE]

\* ------------------------------------------------------------------------
\* Bounds
\* ------------------------------------------------------------------------
MaxWords == 2        \* words per generated filename / text (classifier)
MaxGatewayTables == 4 \* tables handed to the gateway (SpecGateway)
MaxPages == 2        \* pages per file
MaxAltTables == 2    \* tables found by tabula, and by camelot
MaxBatch == 2        \* paths per batch

Min(a, b) == IF a < b THEN a ELSE b

\* ------------------------------------------------------------------------
\* Python string primitives
\* ------------------------------------------------------------------------
UpperChars == <<"A","B","C","D","E","F","G","H","I","J","K","L","M",
                "N","O","P","Q","R","S","T","U","V","W","X","Y","Z">>
LowerChars == <<"a","b","c","d","e","f","g","h","i","j","k","l","m",
                "n","o","p","q","r","s","t","u","v","w","x","y","z">>

\* str.lower(), one character
LowerChar(c) ==
  IF \E k \in 1..26 : UpperChars[k] = c
    THEN LowerChars[CHOOSE k \in 1..26 : UpperChars[k] = c]
    ELSE c

\* str.lower()
Lower(s) == [k \in 1..Len(s) |-> LowerChar(s[k])]

\* `word in s` : substring test
Contains(s, word) ==
  \E p \in 0..(Len(s) - Len(word)) :
     \A j \in 1..Len(word) : s[p + j] = word[j]

\* any(word in s for word in words)
AnyWordIn(s, words) == \E k \in 1..Len(words) : Contains(s, words[k])

\* str.strip(): drop leading and trailing whitespace
Whitespace == {" ", "\n", "\t", "\r"}

Strip(s) ==
  LET kept == { k \in 1..Len(s) : s[k] \notin Whitespace }
  IN  IF kept = {} THEN <<>>
      ELSE SubSeq(s, CHOOSE k \in kept : \A m \in kept : k <= m,
                     CHOOSE k \in kept : \A m \in kept : k >= m)

\* len(s.split()): the number of maximal runs of non-whitespace
WordCount(s) ==
  Cardinality({ k \in 1..Len(s) :
                  /\ s[k] \notin Whitespace
                  /\ (k = 1 \/ s[k - 1] \in Whitespace) })

\* str(n) for a natural number
Digits == <<"0","1","2","3","4","5","6","7","8","9">>

RECURSIVE DecStr(_)
DecStr(n) == IF n < 10 THEN << Digits[n + 1] >>
             ELSE DecStr(n \div 10) \o << Digits[(n % 10) + 1] >>

\* Path(p).name: the last component of the path
PathName(p) ==
  LET slashes == { k \in 1..Len(p) : p[k] = "/" }
  IN  IF slashes = {} THEN p
      ELSE SubSeq(p, (CHOOSE k \in slashes : \A m \in slashes : k >= m) + 1, Len(p))

\* Path(p).stem: the name without its last suffix
PathStem(p) ==
  LET name == PathName(p)
      dots == { k \in 1..Len(name) : name[k] = "." }
      last == CHOOSE k \in dots : \A m \in dots : k >= m
  IN  IF dots = {} THEN name
      ELSE IF last > 1 /\ last < Len(name) THEN SubSeq(name, 1, last - 1)
      ELSE name

\* ------------------------------------------------------------------------
\* classify_document_type
\* ------------------------------------------------------------------------
\* Filename keyword lists, in the order of the if/elif chain
FilenameRules == <<
  [category |-> "fuel_receipt",
   words |-> << <<"f","u","e","l">>, <<"g","a","s">>,
                <<"b","e","n","z","i","n","e">>, <<"d","i","e","s","e","l">> >>],
  [category |-> "utility_bill",
   words |-> << <<"e","l","e","c","t","r","i","c">>, <<"e","n","e","r","g","i","e">>,
                <<"u","t","i","l","i","t","y">>, <<"s","t","r","o","m">> >>],
  [category |-> "travel_expense",
   words |-> << <<"t","r","a","v","e","l">>, <<"f","l","i","g","h","t">>,
                <<"h","o","t","e","l">>, <<"t","i","c","k","e","t">> >>],
  [category |-> "purchase_invoice",
   words |-> << <<"i","n","v","o","i","c","e">>, <<"f","a","c","t","u","u","r">>,
                <<"b","i","l","l">> >>] >>

\* The content chain with its first two branches exchanged
ContentRulesReordered == <<
  [category |-> "utility_bill",
   words |-> << <<"k","w","h">>, <<"e","l","e","c","t","r","i","c","i","t","y">>,
                <<"e","n","e","r","g","y">>, <<"m","e","t","e","r">> >>],
  [category |-> "fuel_receipt",
   words |-> << <<"f","u","e","l">>, <<"g","a","s","o","l","i","n","e">>,
                <<"d","i","e","s","e","l">>, <<"p","e","t","r","o","l">>,
                <<"p","u","m","p">> >>],
  [category |-> "travel_expense",
   words |-> << <<"f","l","i","g","h","t">>, <<"a","i","r","l","i","n","e">>,
                <<"h","o","t","e","l">>, <<"t","r","a","v","e","l">> >>] >>

\* Content keyword lists, in the order of the if/elif chain
ContentRules == <<
  [category |-> "fuel_receipt",
   words |-> << <<"f","u","e","l">>, <<"g","a","s","o","l","i","n","e">>,
                <<"d","i","e","s","e","l">>, <<"p","e","t","r","o","l">>,
                <<"p","u","m","p">> >>],
  [category |-> "utility_bill",
   words |-> << <<"k","w","h">>, <<"e","l","e","c","t","r","i","c","i","t","y">>,
                <<"e","n","e","r","g","y">>, <<"m","e","t","e","r">> >>],
  [category |-> "travel_expense",
   words |-> << <<"f","l","i","g","h","t">>, <<"a","i","r","l","i","n","e">>,
                <<"h","o","t","e","l">>, <<"t","r","a","v","e","l">> >>] >>

\* An if/elif chain over keyword lists: the category of the first rule whose
\* list matches s, else dflt
RECURSIVE FirstMatch(_, _, _, _)
FirstMatch(rules, k, s, dflt) ==
  IF k > Len(rules) THEN dflt
  ELSE IF AnyWordIn(s, rules[k].words) THEN rules[k].category
  ELSE FirstMatch(rules, k + 1, s, dflt)

\* The classifier with the content chain tried before the filename chain
classify_content_first(txt, fname) ==
  LET by_content == FirstMatch(ContentRules, 1, Lower(txt), "")
  IN  IF by_content # "" THEN by_content
      ELSE FirstMatch(FilenameRules, 1, Lower(fname), "other")

classify_document_type(txt, fname) ==
  LET filename_lower == Lower(fname)
      text_lower     == Lower(txt)
      by_filename    == FirstMatch(FilenameRules, 1, filename_lower, "")
  IN  IF by_filename # "" THEN by_filename
      ELSE FirstMatch(ContentRules, 1, text_lower, "other")

\* ------------------------------------------------------------------------
\* Python values that come out of json.loads, tagged with their type
\* ------------------------------------------------------------------------
PyNull      == [t |-> "null"]
PyNum(n)    == [t |-> "num", v |-> n]      \* numbers in hundredths: 0.8 is 80
PyStr(s)    == [t |-> "str", v |-> s]
PyList(seq) == [t |-> "list", v |-> seq]
PyDict(f)   == [t |-> "dict", v |-> f]

\* Outcome of evaluating Python code: a value, or an exception
Return(v) == [raised |-> FALSE, value |-> v]
Raise(e)  == [raised |-> TRUE, error |-> e]

\* dict.get(key, default); AttributeError on a value that is not a dict
PyGet(x, key, default) ==
  IF x.t # "dict" THEN Raise("AttributeError")
  ELSE IF key \in DOMAIN x.v THEN Return(x.v[key])
  ELSE Return(default)

\* len(x); TypeError on None and on numbers
PyLen(x) ==
  IF x.t \in {"list", "str"} THEN Return(Len(x.v))
  ELSE IF x.t = "dict" THEN Return(Cardinality(DOMAIN x.v))
  ELSE Raise("TypeError")

\* x < 0.8 (bound in hundredths); TypeError unless x is a number
PyLessThan(x, bound) ==
  IF x.t = "num" THEN Return(x.v < bound) ELSE Raise("TypeError")

\* json.loads(content): content is None, text that is not JSON, or the text
\* of a JSON document
JsonLoads(content) ==
  IF content = None THEN Raise("TypeError")
  ELSE IF ~content.valid THEN Raise("JSONDecodeError")
  ELSE Return(content.value)

\* json.dumps / json.dump accept a table unless its cells hold objects the
\* encoder does not know (numpy integers, timestamps)
JsonEncodable(table) == table.data.cells # "numpy"

\* json.dumps(tables, indent=2)
JsonDumps(tables) ==
  IF \A k \in 1..Len(tables) : JsonEncodable(tables[k])
    THEN Return([json |-> tables])
    ELSE Raise("TypeError")

\* s[:n + 1] in place of s[:n]
TakeOneMore(s, n) == SubSeq(s, 1, Min(n + 1, Len(s)))

\* s[:n]
Take(s, n) == SubSeq(s, 1, Min(n, Len(s)))

\* ------------------------------------------------------------------------
\* extract_carbon_data_with_ai
\* ------------------------------------------------------------------------
TextBudget == 5000     \* text[:5000]
TableBudget == 3       \* tables[:3]

\* An except branch that forgets the warning
DegradedResultNoWarning(document_type, e) ==
  PyDict([document_type         |-> PyStr(document_type),
          extraction_confidence |-> PyNum(0),
          entries               |-> PyList(<<>>),
          warnings    |-> PyList(<<>>),
          suggestions |-> PyList(<< PyStr("Manual review required") >>)])

\* The result returned by the except branch
DegradedResult(document_type, e) ==
  PyDict([document_type         |-> PyStr(document_type),
          extraction_confidence |-> PyNum(0),
          entries               |-> PyList(<<>>),
          warnings    |-> PyList(<< PyStr(<<"AI processing failed: ", e>>) >>),
          suggestions |-> PyList(<< PyStr("Manual review required") >>)])

\* The body of the try block, given the prompt already built.  service is
\* what openai_client.chat.completions.create does: raise, or answer with
\* message content.
TryExtract(service) ==
  IF service.raises THEN Raise(service.error)
  ELSE LET loaded == JsonLoads(service.content)
       IN  IF loaded.raised THEN loaded
           ELSE LET result  == loaded.value
                    entries == PyGet(result, "entries", PyList(<<>>))
                IN  IF entries.raised THEN entries
                    ELSE IF PyLen(entries.value).raised THEN PyLen(entries.value)
                    ELSE Return(result)

\* Outcome: raised (the prompt could not be built), or value = the returned
\* dict; prompt = the variable parts of the user message (None when it was
\* never built); called = whether the service call was made.
extract_carbon_data_with_ai(txt, tables, document_type, service) ==
  LET table_data == IF Len(tables) > 0
                      THEN JsonDumps(Take(tables, TableBudget))
                      ELSE Return("No tables found")
  IN  IF table_data.raised
        THEN [raised |-> TRUE, error |-> table_data.error,
              prompt |-> None, called |-> FALSE]
        ELSE LET prompt == [document_type |-> document_type,
                            text          |-> Take(txt, TextBudget),
                            tables_found  |-> Len(tables),
                            table_data    |-> table_data.value]
                 tried  == TryExtract(service)
             IN  [raised |-> FALSE,
                  value  |-> IF tried.raised
                               THEN DegradedResult(document_type, tried.error)
                               ELSE tried.value,
                  prompt |-> prompt, called |-> TRUE]

\* ------------------------------------------------------------------------
\* Extractor adapters.  A file is what the libraries find in it:
\*   opens   : pdfplumber.open succeeds
\*   pages   : per page, text (extract_text() or ''), raw_tables (each with
\*             its number of rows, header row included), tables_raise
\*             (extract_tables raises) and ocr (None when rasterising or
\*             recognising the page raises, else recognised text and the
\*             token confidences)
\*   tabula, camelot : raises (library absent or failing), else the tables
\* ------------------------------------------------------------------------
PageHeader(n) ==
  <<"\n","-","-","-"," ","P","a","g","e"," ">> \o DecStr(n) \o <<" ","-","-","-","\n">>

OcrPageHeader(n) ==
  <<"\n","-","-","-"," ","P","a","g","e"," ">> \o DecStr(n)
     \o <<" ","(","O","C","R",")"," ","-","-","-","\n">>

\* The tables of one page that have a header row and a data row
RECURSIVE PageTables(_, _, _)
PageTables(raw, k, page_number) ==
  IF k > Len(raw) THEN <<>>
  ELSE (IF raw[k].rows > 1
          THEN << [page      |-> page_number,
                   table_num |-> k,
                   data      |-> [cells |-> "plain", records |-> raw[k].rows - 1],
                   headers   |-> "row0"] >>
          ELSE <<>>)
       \o PageTables(raw, k + 1, page_number)

RECURSIVE PlumberPages(_, _, _)
PlumberPages(pages, k, result) ==
  IF k > Len(pages) THEN result
  ELSE LET page   == pages[k]
           tables == IF page.tables_raise THEN <<>>
                     ELSE PageTables(page.raw_tables, 1, k)
           page_data == [page_number |-> k, text |-> page.text, tables |-> tables]
       IN  PlumberPages(pages, k + 1,
             [result EXCEPT !.text   = @ \o PageHeader(k) \o page.text,
                            !.tables = @ \o tables,
                            !.pages  = Append(@, page_data)])

extract_text_with_pdfplumber(file) ==
  LET result == [text |-> <<>>, tables |-> <<>>,
                 metadata |-> [total_pages |-> 0], pages |-> <<>>]
  IN  IF ~file.opens
        THEN [text |-> <<>>, tables |-> <<>>,
              metadata |-> [total_pages |-> 0], pages |-> <<>>,
              error |-> "cannot open"]
        ELSE PlumberPages(file.pages, 1,
               [result EXCEPT !.metadata = [total_pages |-> Len(file.pages)]])

extract_with_tabula(file) ==
  IF file.tabula.raises THEN <<>> ELSE file.tabula.tables

extract_with_camelot(file) ==
  IF file.camelot.raises THEN <<>>
  ELSE [k \in 1..Len(file.camelot.tables) |->
          [table_num  |-> k,
           accuracy   |-> file.camelot.tables[k].accuracy,
           whitespace |-> file.camelot.tables[k].whitespace,
           data       |-> [cells |-> file.camelot.tables[k].cells]]]

RECURSIVE SumSeq(_)
SumSeq(q) == IF q = <<>> THEN 0 ELSE Head(q) + SumSeq(Tail(q))

\* np.mean(confidences) if confidences else 0, as the quotient num/den
MeanConfidence(conf) ==
  LET confidences == SelectSeq(conf, LAMBDA c : c > 0)
  IN  IF Len(confidences) > 0
        THEN [num |-> SumSeq(confidences), den |-> Len(confidences)]
        ELSE [num |-> 0, den |-> 1]

\* for page_num, page in enumerate(pdf.pages): a page whose try block raises is logged
\* and skipped
RECURSIVE OcrPages(_, _, _)
OcrPages(pages, k, result) ==
  IF k > Len(pages) THEN result
  ELSE IF pages[k].ocr = None THEN OcrPages(pages, k + 1, result)
  ELSE LET page_text      == pages[k].ocr.text
           avg_confidence == MeanConfidence(pages[k].ocr.conf)
           page_result    == [page_number |-> k,
                              text        |-> page_text,
                              confidence  |-> avg_confidence,
                              word_count  |-> WordCount(page_text)]
       IN  OcrPages(pages, k + 1,
             [result EXCEPT !.pages = Append(@, page_result),
                            !.text  = @ \o OcrPageHeader(k) \o page_text,
                            !.confidence = Append(@, avg_confidence)])

ocr_with_pytesseract(file) ==
  IF ~file.opens
    THEN [text |-> <<>>, pages |-> <<>>, confidence |-> <<>>,
          error |-> "cannot open"]
    ELSE OcrPages(file.pages, 1,
                  [text |-> <<>>, pages |-> <<>>, confidence |-> <<>>])

\* ------------------------------------------------------------------------
\* process_pdf_comprehensive
\* ------------------------------------------------------------------------
OcrThreshold == 100      \* text_length < 100
ReviewThreshold == 80    \* extraction_confidence < 0.8, in hundredths

\* The length test without strip()
NeedsOcrUntrimmed(pdfplumber_result) ==
  Len(pdfplumber_result.text) < OcrThreshold

\* if text_length < 100: whether the OCR adapter is called
NeedsOcr(pdfplumber_result) ==
  Len(Strip(pdfplumber_result.text)) < OcrThreshold

\* The choice with >= in place of >
ChooseTextOnTie(pdfplumber_result, ocr_result) ==
  IF /\ ocr_result # None
     /\ Len(ocr_result.text) >= Len(pdfplumber_result.text)
    THEN [primary_text |-> ocr_result.text, extraction_method |-> "ocr"]
    ELSE [primary_text |-> pdfplumber_result.text, extraction_method |-> "pdfplumber"]

\* "Choose best text source"
ChooseText(pdfplumber_result, ocr_result) ==
  IF /\ ocr_result # None
     /\ Len(ocr_result.text) > Len(pdfplumber_result.text)
    THEN [primary_text |-> ocr_result.text, extraction_method |-> "ocr"]
    ELSE [primary_text |-> pdfplumber_result.text, extraction_method |-> "pdfplumber"]

\* "Combine all tables": all_tables is the list object held by
\* pdfplumber_result['tables'], and append() extends that list in place
CombineTables(pdfplumber_result, tabula_tables, camelot_tables) ==
  pdfplumber_result.tables \o
    [k \in 1..Len(tabula_tables) |->
       [source |-> "tabula", table_num |-> k,
        data   |-> [cells |-> tabula_tables[k].cells]]]

\* Steps 2..6 and the final result, given the dict step 1 produced.
\* Outcome: raised with error, or value = final_result.  calls lists the
\* methods invoked, in order; prompt is what the gateway put in its request.
ComprehensiveSteps(pdfplumber_result, pdf_path, file, service, now) ==
  LET fname == PathName(pdf_path)
      ocr_result  == IF NeedsOcr(pdfplumber_result)
                       THEN ocr_with_pytesseract(file)
                       ELSE None
      tabula_tables  == extract_with_tabula(file)
      camelot_tables == extract_with_camelot(file)
      chosen            == ChooseText(pdfplumber_result, ocr_result)
      primary_text      == chosen.primary_text
      extraction_method == chosen.extraction_method
      all_tables == CombineTables(pdfplumber_result, tabula_tables, camelot_tables)
      pdfplumber_after == [pdfplumber_result EXCEPT !.tables = all_tables]
      document_type == classify_document_type(primary_text, fname)
      ai == extract_carbon_data_with_ai(primary_text, all_tables, document_type, service)
      calls == <<"extract_text_with_pdfplumber">>
               \o (IF ocr_result # None THEN <<"ocr_with_pytesseract">> ELSE <<>>)
               \o <<"extract_with_tabula", "extract_with_camelot",
                    "classify_document_type", "extract_carbon_data_with_ai">>
  IN  IF ai.raised
        THEN [raised |-> TRUE, error |-> ai.error, value |-> None,
              calls |-> calls, prompt |-> ai.prompt]
        ELSE
          LET ai_result  == ai.value
              entries    == PyLen(PyGet(ai_result, "entries", PyList(<<>>)).value)
              confidence == PyGet(ai_result, "extraction_confidence", PyNum(0)).value
              review     == PyLessThan(confidence, ReviewThreshold)
          IN  IF entries.raised
                THEN [raised |-> TRUE, error |-> entries.error, value |-> None,
                      calls |-> calls, prompt |-> ai.prompt]
              ELSE IF review.raised
                THEN [raised |-> TRUE, error |-> review.error, value |-> None,
                      calls |-> calls, prompt |-> ai.prompt]
              ELSE
                [raised |-> FALSE, error |-> "",
                 value |->
                   [filename             |-> fname,
                    processing_timestamp |-> now,
                    extraction_method    |-> extraction_method,
                    document_type        |-> document_type,
                    text_length          |-> Len(primary_text),
                    tables_found         |-> Len(all_tables),
                    processing_results   |->
                      [pdfplumber     |-> pdfplumber_after,
                       ocr            |-> ocr_result,
                       tabula_tables  |-> Len(tabula_tables),
                       camelot_tables |-> Len(camelot_tables)],
                    carbon_data          |-> ai_result,
                    summary              |->
                      [entries_extracted |-> entries.value,
                       confidence        |-> confidence,
                       requires_review   |-> review.value]],
                 calls |-> calls, prompt |-> ai.prompt]

\* Step 1 hands the steps above the dict extract_text_with_pdfplumber builds
process_pdf_comprehensive(pdf_path, file, service, now) ==
  ComprehensiveSteps(extract_text_with_pdfplumber(file),
                     pdf_path, file, service, now)

\* ------------------------------------------------------------------------
\* Arguments for the classifier: up to MaxWords words, joined by "_"
\* ------------------------------------------------------------------------
FilenameVocab == {
  <<"G","a","s">>, <<"b","i","l","l">>, <<"H","o","t","e","l">>,
  <<"s","t","r","o","m">>, <<"e","n","e","r","g","y">>, <<"s","c","a","n">> }

TextVocab == {
  <<"g","a","s">>, <<"I","n","v","o","i","c","e">>, <<"k","W","h">>,
  <<"a","i","r","l","i","n","e">>, <<"p","u","m","p">>, <<"t","o","t","a","l">> }

RECURSIVE Phrases(_, _)
Phrases(vocab, n) ==
  IF n = 0 THEN { <<>> }
  ELSE LET shorter == Phrases(vocab, n - 1)
       IN  shorter \cup { p \o <<"_">> \o w : p \in shorter \ { <<>> }, w \in vocab }
                   \cup vocab

Filenames == { p \o <<".","p","d","f">> : p \in Phrases(FilenameVocab, MaxWords) }
Texts     == Phrases(TextVocab, MaxWords)

\* ------------------------------------------------------------------------
\* Arguments and service behaviours for the gateway
\* ------------------------------------------------------------------------
\* A text of n characters in which no two positions three apart or less agree
LongText(n) == [k \in 1..n |-> <<"a", "b", "c", "d">>[(k % 4) + 1]]

GatewayTexts ==
  { LongText(n) : n \in {0, 1, TextBudget - 1, TextBudget, TextBudget + 1} }

Cells == {"plain", "numpy"}

\* A table as process_pdf_comprehensive builds it from a tabula DataFrame
TabulaTable(k, cells) ==
  [source |-> "tabula", table_num |-> k, data |-> [cells |-> cells]]

TableSeqs(maxlen) ==
  UNION { { [k \in 1..n |-> TabulaTable(k, c[k])] : c \in [1..n -> Cells] }
          : n \in 0..maxlen }

CarbonEntry == PyDict([activity_description |-> PyStr("diesel 40 l"),
                       ghg_scope |-> PyStr("Scope 1")])

Answer(value) == [raises |-> FALSE, content |-> [valid |-> TRUE, value |-> value]]

\* A response that follows the schema: n entries, confidence conf
GoodAnswer(n, conf) ==
  Answer(PyDict([document_type         |-> PyStr("fuel_receipt"),
                 extraction_confidence |-> PyNum(conf),
                 entries     |-> PyList([k \in 1..n |-> CarbonEntry]),
                 warnings    |-> PyList(<<>>),
                 suggestions |-> PyList(<<>>)]))

\* The call raises, or the content is not JSON
FailingServices == {
  [raises |-> TRUE, error |-> "APIConnectionError"],
  [raises |-> FALSE, content |-> None],
  [raises |-> FALSE, content |-> [valid |-> FALSE, value |-> PyNull]] }

\* The content is JSON but not a StructuredExtractionResult
SchemaViolations == {
  Answer(PyList(<<>>)),                                    \* top level not an object
  Answer(PyDict([extraction_confidence |-> PyNum(90)])),   \* entries missing
  Answer(PyDict([extraction_confidence |-> PyNum(90),
                 entries |-> PyNum(2)])),                  \* entries a number
  Answer(PyDict([extraction_confidence |-> PyStr("high"),
                 entries |-> PyList(<<CarbonEntry>>)])),   \* confidence a string
  Answer(PyDict([extraction_confidence |-> PyNull,
                 entries |-> PyList(<<>>)])) }             \* confidence null

GoodServices == { GoodAnswer(0, 100), GoodAnswer(1, 85), GoodAnswer(2, 79) }

Services == GoodServices \cup FailingServices \cup SchemaViolations

IdlePipeline ==
  /\ ppc = "idle"
  /\ p_path = <<>>
  /\ p_file = None
  /\ p_service = None
  /\ p_out = None

IdleBatch ==
  /\ bpc = "idle"
  /\ pdf_paths = <<>>
  /\ idx = 0
  /\ results = <<>>
  /\ successful = 0
  /\ failed = 0
  /\ disk = <<>>
  /\ batch_summary = None
  /\ outcomes = <<>>
  /\ degraded_log = <<>>

IdleRerun ==
  /\ rpc = "idle"
  /\ r_path = <<>>
  /\ r_file = None
  /\ r_service = None
  /\ r_live = None
  /\ r_first = None
  /\ r_second = None

IdleValidate ==
  /\ vpc = "idle"
  /\ v_mapped = None
  /\ v_out = None
  /\ v_file = None

\* ------------------------------------------------------------------------
\* SpecGateway: extract_carbon_data_with_ai applied to chosen arguments
\* ------------------------------------------------------------------------
\* The variables of an operation that a specification does not exercise
IdleClassify ==
  /\ cpc = "idle"
  /\ filename = <<>>
  /\ text = <<>>
  /\ doc_type = ""

IdleGateway ==
  /\ gpc = "idle"
  /\ g_text = <<>>
  /\ g_tables = <<>>
  /\ g_document_type = ""
  /\ g_service = None
  /\ g_out = None

InitGateway ==
  /\ gpc = "ready"
  /\ g_text \in GatewayTexts
  /\ g_tables \in TableSeqs(MaxGatewayTables)
  /\ g_document_type \in {"fuel_receipt", "other"}
  /\ g_service \in Services
  /\ g_out = None
  /\ IdleClassify
  /\ IdlePipeline
  /\ IdleBatch
  /\ IdleRerun
  /\ IdleValidate
  /\ clock = 0

ExtractCarbonData ==
  /\ gpc = "ready"
  /\ g_out' = extract_carbon_data_with_ai(g_text, g_tables, g_document_type, g_service)
  /\ gpc' = "done"
  /\ UNCHANGED <<g_text, g_tables, g_document_type, g_service>>
  /\ UNCHANGED <<cvars, pvars, bvars, rvars, vvars, clock>>

NextGateway == ExtractCarbonData

SpecGateway == InitGateway /\ [][NextGateway]_vars

\* ------------------------------------------------------------------------
\* Files and paths for the pipeline
\* ------------------------------------------------------------------------
\* word followed by "x" up to n characters
PadText(word, n) == [k \in 1..n |-> IF k <= Len(word) THEN word[k] ELSE "x"]

\* Page text that leaves the stripped native text of a one-page file d
\* characters short of OcrThreshold
PageTextShortBy(word, d) ==
  PadText(word, OcrThreshold - Len(Strip(PageHeader(1))) - 1 - d)

FirstPageTexts == {
  <<>>,
  PageTextShortBy(<<"D","i","e","s","e","l">>, 1) \o <<"\n">>,
  PageTextShortBy(<<"k","W","h">>, 0) }

\* Recognised text that makes the OCR text of a one-page file d characters
\* longer than the native text of a page filled up to OcrThreshold
OcrTextLongerBy(word, d) ==
  PadText(word, Len(PageHeader(1)) + Len(PageTextShortBy(<<>>, 0)) + d
                  - Len(OcrPageHeader(1)))

OcrOutcomes == {
  None,
  [text |-> <<>>, conf |-> <<>>],
  [text |-> OcrTextLongerBy(<<"p","u","m","p">>, 0), conf |-> <<90, -1, 81>>],
  [text |-> OcrTextLongerBy(<<"h","o","t","e","l">>, 1), conf |-> <<-1>>] }

FirstPages ==
  [text : FirstPageTexts,
   raw_tables : { <<>>, << [rows |-> 1], [rows |-> 3] >> },
   tables_raise : {FALSE},
   ocr : OcrOutcomes]

LaterPages == {
  [text |-> <<>>, raw_tables |-> << [rows |-> 2] >>, tables_raise |-> TRUE,
   ocr |-> None],
  [text |-> <<"f","l","i","g","h","t">>, raw_tables |-> << [rows |-> 2] >>,
   tables_raise |-> FALSE,
   ocr |-> [text |-> <<"f","l","i","g","h","t">>, conf |-> <<50, 70>>]] }

PageSeqs ==
  UNION { { [k \in 1..n |-> IF k = 1 THEN first ELSE later[k]] :
              first \in FirstPages, later \in [1..n -> LaterPages] }
          : n \in 1..MaxPages }

\* DataFrames returned by tabula: plain cells, or the last one with cells
\* the JSON encoder rejects
TabulaOutcomes ==
  { [raises |-> TRUE, tables |-> <<>>] }
  \cup { [raises |-> FALSE, tables |-> [k \in 1..n |-> [cells |-> "plain"]]]
         : n \in 0..MaxAltTables }
  \cup { [raises |-> FALSE,
          tables |-> [k \in 1..n |-> [cells |-> IF k = n THEN "numpy" ELSE "plain"]]]
         : n \in 1..MaxAltTables }

CamelotOutcomes ==
  { [raises |-> TRUE, tables |-> <<>>] }
  \cup { [raises |-> FALSE,
          tables |-> [k \in 1..n |-> [accuracy |-> 99, whitespace |-> 10,
                                      cells |-> "plain"]]]
         : n \in 0..MaxAltTables }

Unreadable ==
  [opens |-> FALSE, pages |-> <<>>,
   tabula |-> [raises |-> TRUE, tables |-> <<>>],
   camelot |-> [raises |-> TRUE, tables |-> <<>>]]

Files ==
  { Unreadable }
  \cup [opens : {TRUE}, pages : PageSeqs,
        tabula : TabulaOutcomes, camelot : CamelotOutcomes]

Paths == { <<"i","n","/","F","u","e","l",".","p","d","f">>,
           <<"s","c","a","n",".","p","d","f">> }

PipelineServices == {
  GoodAnswer(1, 85),
  [raises |-> TRUE, error |-> "APIConnectionError"],
  Answer(PyDict([extraction_confidence |-> PyNum(90)])),
  Answer(PyDict([extraction_confidence |-> PyStr("high"),
                 entries |-> PyList(<<CarbonEntry>>)])) }

\* ------------------------------------------------------------------------
\* SpecPipeline: process_pdf_comprehensive applied to a chosen file
\* ------------------------------------------------------------------------
InitPipeline ==
  /\ ppc = "ready"
  /\ p_path \in Paths
  /\ p_file \in Files
  /\ p_service \in PipelineServices
  /\ p_out = None
  /\ clock = 0
  /\ IdleClassify
  /\ IdleGateway
  /\ IdleBatch
  /\ IdleRerun
  /\ IdleValidate

ProcessPdf ==
  /\ ppc = "ready"
  /\ p_out' = process_pdf_comprehensive(p_path, p_file, p_service, clock)
  /\ clock' = clock + 1
  /\ ppc' = "done"
  /\ UNCHANGED <<p_path, p_file, p_service>>
  /\ UNCHANGED <<cvars, gvars, bvars, rvars, vvars>>

NextPipeline == ProcessPdf

SpecPipeline == InitPipeline /\ [][NextPipeline]_vars

\* ------------------------------------------------------------------------
\* batch_process_pdfs
\* ------------------------------------------------------------------------
\* The entry appended by the except branch
ErrorEntry(pdf_path, e, now) ==
  [filename |-> PathName(pdf_path), error |-> e, processing_timestamp |-> now]

IsErrorEntry(r) == "error" \in DOMAIN r

\* json.dump accepts an entry of results unless it holds a table the encoder
\* rejects
EntryEncodable(r) ==
  \/ IsErrorEntry(r)
  \/ \A k \in 1..Len(r.processing_results.pdfplumber.tables) :
        JsonEncodable(r.processing_results.pdfplumber.tables[k])

OutputFile(pdf_path) ==
  PathStem(pdf_path) \o <<"_","p","r","o","c","e","s","s","e","d",".","j","s","o","n">>

SummaryFile == <<"b","a","t","c","h","_","s","u","m","m","a","r","y",".","j","s","o","n">>

\* Whether the run reaches the gateway's try block and leaves it through
\* the except branch
GatewayDegraded(pdf_path, file, service) ==
  LET run == process_pdf_comprehensive(pdf_path, file, service, clock)
  IN  /\ run.prompt # None
      /\ TryExtract(service).raised

\* One iteration of the for loop over file (what is at the path), service
\* (what the extraction call does) and disk_ok (whether the output file can
\* be opened for writing)
BatchIteration(pdf_path, file, service, disk_ok) ==
  LET run == process_pdf_comprehensive(pdf_path, file, service, clock)
  IN  IF run.raised
        THEN /\ failed' = failed + 1
             /\ results' = Append(results, ErrorEntry(pdf_path, run.error, clock + 1))
             /\ outcomes' = Append(outcomes, "pipeline_raised")
             /\ UNCHANGED <<successful, disk>>
      ELSE IF ~disk_ok
        THEN /\ failed' = failed + 1
             /\ results' = results \o << run.value,
                                         ErrorEntry(pdf_path, "OSError", clock + 1) >>
             /\ outcomes' = Append(outcomes, "write_raised")
             /\ UNCHANGED <<successful, disk>>
      ELSE IF ~EntryEncodable(run.value)
        THEN /\ failed' = failed + 1
             /\ results' = results \o << run.value,
                                         ErrorEntry(pdf_path, "TypeError", clock + 1) >>
             /\ disk' = Append(disk, [name |-> OutputFile(pdf_path),
                                      content |-> run.value, complete |-> FALSE])
             /\ outcomes' = Append(outcomes, "write_raised")
             /\ UNCHANGED successful
      ELSE /\ successful' = successful + 1
           /\ results' = Append(results, run.value)
           /\ disk' = Append(disk, [name |-> OutputFile(pdf_path),
                                    content |-> run.value, complete |-> TRUE])
           /\ outcomes' = Append(outcomes, "ok")
           /\ UNCHANGED failed

\* The quotient without the guard on an empty batch
SuccessRateUnguarded(n_successful, paths) ==
  [num |-> n_successful, den |-> Len(paths)]

\* successful / len(pdf_paths) if pdf_paths else 0, as the quotient num/den
SuccessRate(n_successful, paths) ==
  IF Len(paths) > 0 THEN [num |-> n_successful, den |-> Len(paths)]
  ELSE [num |-> 0, den |-> 1]

BatchSummaryRecord ==
  [batch_id             |-> <<"batch_", clock>>,
   total_files          |-> Len(pdf_paths),
   successful           |-> successful,
   failed               |-> failed,
   success_rate         |-> SuccessRate(successful, pdf_paths),
   processing_timestamp |-> clock,
   results              |-> results]

\* ------------------------------------------------------------------------
\* Files and services for batches
\* ------------------------------------------------------------------------
DigitalPage(n_tables) ==
  [text |-> PageTextShortBy(<<"k","W","h">>, 0),
   raw_tables |-> [k \in 1..n_tables |-> [rows |-> 2]],
   tables_raise |-> FALSE, ocr |-> None]

ScannedPage ==
  [text |-> <<>>, raw_tables |-> <<>>, tables_raise |-> FALSE,
   ocr |-> [text |-> <<"p","u","m","p"," ","4","0"," ","l">>, conf |-> <<90, -1>>]]

NoAltTables == [raises |-> FALSE, tables |-> <<>>]

BatchFiles == {
  Unreadable,
  [opens |-> TRUE, pages |-> <<DigitalPage(1)>>,
   tabula |-> [raises |-> FALSE, tables |-> << [cells |-> "plain"] >>],
   camelot |-> NoAltTables],
  [opens |-> TRUE, pages |-> <<ScannedPage>>,
   tabula |-> NoAltTables, camelot |-> NoAltTables],
  \* tabula's table is among the first TableBudget tables
  [opens |-> TRUE, pages |-> <<DigitalPage(0)>>,
   tabula |-> [raises |-> FALSE, tables |-> << [cells |-> "numpy"] >>],
   camelot |-> NoAltTables],
  \* tabula's table comes after the first TableBudget tables
  [opens |-> TRUE, pages |-> <<DigitalPage(TableBudget)>>,
   tabula |-> [raises |-> FALSE, tables |-> << [cells |-> "numpy"] >>],
   camelot |-> NoAltTables] }

BatchServices == {
  GoodAnswer(1, 85),
  [raises |-> TRUE, error |-> "APIConnectionError"],
  Answer(PyDict([extraction_confidence |-> PyStr("high"),
                 entries |-> PyList(<<CarbonEntry>>)])) }

PathSeqs == UNION { [1..n -> Paths] : n \in 0..MaxBatch }

\* ------------------------------------------------------------------------
\* Spec: batch_process_pdfs over a chosen sequence of paths
\* ------------------------------------------------------------------------
Init ==
  /\ bpc = "loop"
  /\ pdf_paths \in PathSeqs
  /\ idx = 0
  /\ results = <<>>
  /\ successful = 0
  /\ failed = 0
  /\ disk = <<>>
  /\ batch_summary = None
  /\ outcomes = <<>>
  /\ degraded_log = <<>>
  /\ clock = 0
  /\ IdleClassify
  /\ IdleGateway
  /\ IdlePipeline
  /\ IdleRerun
  /\ IdleValidate

\* for i, pdf_path in enumerate(pdf_paths): one iteration
BatchItem ==
  /\ bpc = "loop"
  /\ idx < Len(pdf_paths)
  /\ \E file \in BatchFiles, service \in BatchServices, disk_ok \in BOOLEAN :
        /\ BatchIteration(pdf_paths[idx + 1], file, service, disk_ok)
        /\ degraded_log' = Append(degraded_log,
                                  GatewayDegraded(pdf_paths[idx + 1], file, service))
  /\ idx' = idx + 1
  /\ clock' = clock + 2
  /\ UNCHANGED <<bpc, pdf_paths, batch_summary>>
  /\ UNCHANGED <<cvars, gvars, pvars, rvars, vvars>>

\* After the loop: build batch_summary, write batch_summary.json, return.
\* json.dump raises when results holds an entry the encoder rejects.
BatchSummary ==
  /\ bpc = "loop"
  /\ idx = Len(pdf_paths)
  /\ IF \A k \in 1..Len(results) : EntryEncodable(results[k])
       THEN /\ disk' = Append(disk, [name |-> SummaryFile,
                                     content |-> BatchSummaryRecord,
                                     complete |-> TRUE])
            /\ batch_summary' = BatchSummaryRecord
            /\ bpc' = "done"
       ELSE /\ disk' = Append(disk, [name |-> SummaryFile,
                                     content |-> BatchSummaryRecord,
                                     complete |-> FALSE])
            /\ batch_summary' = None
            /\ bpc' = "raised"
  /\ clock' = clock + 1
  /\ UNCHANGED <<pdf_paths, idx, results, successful, failed, outcomes, degraded_log>>
  /\ UNCHANGED <<cvars, gvars, pvars, rvars, vvars>>

Next == BatchItem \/ BatchSummary

Spec == Init /\ [][Next]_vars

\* ------------------------------------------------------------------------
\* SpecClassify: classify_document_type applied to chosen arguments
\* ------------------------------------------------------------------------
InitClassify ==
  /\ cpc = "ready"
  /\ filename \in Filenames
  /\ text \in Texts
  /\ doc_type = ""
  /\ IdleGateway
  /\ IdlePipeline
  /\ IdleBatch
  /\ IdleRerun
  /\ IdleValidate
  /\ clock = 0

Classify ==
  /\ cpc = "ready"
  /\ doc_type' = classify_document_type(text, filename)
  /\ cpc' = "done"
  /\ UNCHANGED <<filename, text>>
  /\ UNCHANGED <<gvars, pvars, bvars, rvars, vvars, clock>>

NextClassify == Classify

SpecClassify == InitClassify /\ [][NextClassify]_vars

\* ------------------------------------------------------------------------
\* DataRecognitionAgent (agent.py): the placeholder tools and process_file
\* ------------------------------------------------------------------------
\* Truth value of a Python object: None, 0, 0.0, '', [] and {} are false
PyTruthy(x) ==
  IF x.t = "null" THEN FALSE
  ELSE IF x.t = "num" THEN x.v # 0
  ELSE IF x.t = "str" THEN x.v # ""
  ELSE IF x.t = "list" THEN Len(x.v) > 0
  ELSE DOMAIN x.v # {}

PyEqualsStr(x, literal) == x.t = "str" /\ x.v = literal

EmptyDict == [k \in {} |-> PyNull]

required_fields == <<"date", "type", "amount", "amount_unit">>

\* if not data.get(field) or data.get(field) == "unknown"
FieldMissing(data, field) ==
  \/ ~PyTruthy(PyGet(data, field, PyNull).value)
  \/ PyEqualsStr(PyGet(data, field, PyNull).value, "unknown")

validate_mapped_data(mapped_data) ==
  LET data == PyGet(mapped_data, "mapped_data", PyDict(EmptyDict)).value
      missing_fields == SelectSeq(required_fields,
                                  LAMBDA field : FieldMissing(data, field))
  IN  [is_valid       |-> Len(missing_fields) = 0,
       missing_fields |-> missing_fields,
       warnings       |-> <<>>,
       mapped_data    |-> mapped_data]

\* os.path.splitext(file_path)[1]: from the last dot of the last component,
\* leading dots of the component set aside
SplitExt(file_path) ==
  LET name == PathName(file_path)
      dots == { k \in 1..Len(name) :
                  /\ name[k] = "."
                  /\ \E m \in 1..(k - 1) : name[m] # "." }
  IN  IF dots = {} THEN <<>>
      ELSE SubSeq(name, CHOOSE k \in dots : \A m \in dots : k >= m, Len(name))

file_types == {
  [ext |-> <<".","p","d","f">>,     type |-> "pdf",   name |-> "PDF Document"],
  [ext |-> <<".","x","l","s","x">>, type |-> "excel", name |-> "Excel Spreadsheet"],
  [ext |-> <<".","x","l","s">>,     type |-> "excel", name |-> "Excel Spreadsheet"],
  [ext |-> <<".","c","s","v">>,     type |-> "csv",   name |-> "CSV File"],
  [ext |-> <<".","j","p","g">>,     type |-> "image", name |-> "JPEG Image"],
  [ext |-> <<".","j","p","e","g">>, type |-> "image", name |-> "JPEG Image"],
  [ext |-> <<".","p","n","g">>,     type |-> "image", name |-> "PNG Image"],
  [ext |-> <<".","t","x","t">>,     type |-> "text",  name |-> "Text Document"] }

detect_file_type(file_path) ==
  LET file_extension == Lower(SplitExt(file_path))
      known == { ft \in file_types : ft.ext = file_extension }
      file_info == IF known # {}
                     THEN LET ft == CHOOSE ft \in known : TRUE
                          IN  [type |-> ft.type, name |-> ft.name]
                     ELSE [type |-> "unknown", name |-> "Unknown File Type"]
  IN  [type      |-> file_info.type,
       name      |-> file_info.name,
       extension |-> file_extension,
       path      |-> file_path,
       filename  |-> PathName(file_path)]

extract_text_from_file(file_path, now) ==
  [file_type         |-> detect_file_type(file_path).type,
   file_path         |-> file_path,
   text_content      |-> <<"Extracted content from ", file_path>>,
   extraction_method |-> "placeholder",
   timestamp         |-> now]

\* The template every call returns; year is datetime.now().year
map_to_carbon_schema(extracted_data, now) ==
  PyDict([mapped_data |->
            PyDict([date            |-> PyStr("YYYY-MM-DD"),
                    type            |-> PyStr("electricity"),
                    region          |-> PyStr("country/region"),
                    amount          |-> PyNum(0),
                    amount_unit     |-> PyStr("kWh"),
                    year            |-> PyNum(now),
                    supplier        |-> PyStr("supplier name"),
                    energy_source   |-> PyStr("renewable/fossil/mixed"),
                    connection_type |-> PyStr("grid/direct"),
                    loss_factor     |-> PyNum(0),
                    recs            |-> PyStr("yes/no/unknown"),
                    invoice_id      |-> PyStr("reference number"),
                    description     |-> PyStr("Additional context")]),
          confidence      |-> PyNum(85),
          original_file   |-> PyStr(extracted_data.file_path),
          requires_review |-> TRUE])

process_file(file_path, now) ==
  LET file_type      == detect_file_type(file_path)
      extracted_data == extract_text_from_file(file_path, now)
      mapped_data    == map_to_carbon_schema(extracted_data, now + 1)
      validated_data == validate_mapped_data(mapped_data)
  IN  [success         |-> validated_data.is_valid,
       data            |-> validated_data.mapped_data,
       file_info       |-> file_type,
       missing_fields  |-> validated_data.missing_fields,
       requires_review |-> Len(validated_data.missing_fields) > 0,
       warnings        |-> validated_data.warnings,
       processed_at    |-> now + 2]

\* Values a mapped record may hold in a required field
FieldValues ==
  { PyNull, PyNum(0), PyNum(125000), PyStr(""), PyStr("unknown"), PyStr("kWh") }

RequiredFieldSet == { required_fields[k] : k \in 1..Len(required_fields) }

MappedDicts == UNION { [present -> FieldValues] : present \in SUBSET RequiredFieldSet }

MappedInputs ==
  { PyDict([mapped_data |-> PyDict(d), confidence |-> PyNum(85)]) : d \in MappedDicts }
    \cup { PyDict([confidence |-> PyNum(85)]) }

AgentPaths == { <<"e","x","a","m","p","l","e",".","p","d","f">>,
                <<"i","n","/","D","a","t","a",".","C","S","V">>,
                <<".","e","n","v">> }

\* ------------------------------------------------------------------------
\* SpecValidate: validate_mapped_data on a chosen record, process_file on a
\* chosen path
\* ------------------------------------------------------------------------
InitValidate ==
  /\ vpc = "ready"
  /\ v_mapped \in MappedInputs
  /\ v_out = None
  /\ v_file = None
  /\ clock = 0
  /\ IdleClassify
  /\ IdleGateway
  /\ IdlePipeline
  /\ IdleBatch
  /\ IdleRerun

Validate ==
  /\ vpc = "ready"
  /\ v_out = None
  /\ v_out' = validate_mapped_data(v_mapped)
  /\ vpc' = IF v_file # None THEN "done" ELSE vpc
  /\ UNCHANGED <<v_mapped, v_file, clock>>
  /\ UNCHANGED <<cvars, gvars, pvars, bvars, rvars>>

ProcessFile ==
  /\ vpc = "ready"
  /\ v_file = None
  /\ \E file_path \in AgentPaths : v_file' = process_file(file_path, clock)
  /\ clock' = clock + 3
  /\ vpc' = IF v_out # None THEN "done" ELSE vpc
  /\ UNCHANGED <<v_mapped, v_out>>
  /\ UNCHANGED <<cvars, gvars, pvars, bvars, rvars>>

NextValidate == Validate \/ ProcessFile

SpecValidate == InitValidate /\ [][NextValidate]_vars

\* ------------------------------------------------------------------------
\* SpecRerun: process_pdf_comprehensive twice on one processor, same path,
\* same file content, same service behaviour
\* ------------------------------------------------------------------------
\* A native adapter that hands back the dict of the previous run
NativeResultKept(file, live) ==
  IF live = None THEN extract_text_with_pdfplumber(file) ELSE live

\* Step 1 of a run on a processor whose previous run left live behind:
\* extract_text_with_pdfplumber builds a new result dict on every call and
\* the processor keeps no reference to an old one
NativeResult(file, live) == extract_text_with_pdfplumber(file)

\* The native dict once the run has appended the tabula tables to its list
NativeResultAfter(native, file) ==
  [native EXCEPT !.tables = CombineTables(native, extract_with_tabula(file),
                                          extract_with_camelot(file))]

InitRerun ==
  /\ rpc = "first"
  /\ r_path \in Paths
  /\ r_file \in Files
  /\ r_service \in PipelineServices
  /\ r_live = None
  /\ r_first = None
  /\ r_second = None
  /\ clock = 0
  /\ IdleClassify
  /\ IdleGateway
  /\ IdlePipeline
  /\ IdleBatch
  /\ IdleValidate

RunFirst ==
  /\ rpc = "first"
  /\ LET native == NativeResult(r_file, r_live)
     IN  /\ r_first' = ComprehensiveSteps(native, r_path, r_file, r_service, clock)
         /\ r_live' = NativeResultAfter(native, r_file)
  /\ clock' = clock + 1
  /\ rpc' = "second"
  /\ UNCHANGED <<r_path, r_file, r_service, r_second>>
  /\ UNCHANGED <<cvars, gvars, pvars, bvars, vvars>>

RunSecond ==
  /\ rpc = "second"
  /\ LET native == NativeResult(r_file, r_live)
     IN  /\ r_second' = ComprehensiveSteps(native, r_path, r_file, r_service, clock)
         /\ r_live' = NativeResultAfter(native, r_file)
  /\ clock' = clock + 1
  /\ rpc' = "done"
  /\ UNCHANGED <<r_path, r_file, r_service, r_first>>
  /\ UNCHANGED <<cvars, gvars, pvars, bvars, vvars>>

NextRerun == RunFirst \/ RunSecond

SpecRerun == InitRerun /\ [][NextRerun]_vars

\* ========================================================================
\* Properties
\* ========================================================================
N == Len(pdf_paths)

\* ---- Batch orchestrator (Spec) ----------------------------------------

\* C1: Batch isolation.  When the batch has returned and the pipeline raised
\* on item k, every path was gone through, results has length N, entry k is
\* the error placeholder of path k (filename, error, timestamp), and every
\* item whose pipeline did not raise is recorded at its position as a
\* DocumentRecord.
C1_BatchIsolation ==
  (bpc = "done" /\ \E k \in 1..Len(outcomes) : outcomes[k] = "pipeline_raised")
    => /\ Len(outcomes) = N
       /\ Len(results) = N
       /\ \A k \in 1..N :
            IF outcomes[k] = "pipeline_raised"
              THEN /\ IsErrorEntry(results[k])
                   /\ results[k].filename = PathName(pdf_paths[k])
                   /\ DOMAIN results[k] = {"filename", "error", "processing_timestamp"}
              ELSE /\ ~IsErrorEntry(results[k])
                   /\ results[k].filename = PathName(pdf_paths[k])

\* C2: One entry per input.  When the batch has returned, whatever happened
\* to each item (pipeline succeeded, pipeline raised, writing the output
\* file raised), results holds exactly one entry per input, in input order,
\* and total_files = successful + failed = Len(results) = N.
C2_OneEntryPerInput ==
  bpc = "done"
    => /\ Len(batch_summary.results) = N
       /\ \A k \in 1..Min(N, Len(batch_summary.results)) :
            batch_summary.results[k].filename = PathName(pdf_paths[k])
       /\ batch_summary.total_files = N
       /\ batch_summary.successful + batch_summary.failed = N

\* ---- Structured-extraction gateway (SpecGateway) -----------------------

C3_CallFailed ==
  /\ gpc = "done"
  /\ g_out.called
  /\ \/ g_service.raises
     \/ g_service.content = None
     \/ ~g_service.content.valid

\* C3: Gateway degrade law.  When the extraction call raises or its content
\* is not valid JSON, extract_carbon_data_with_ai does not raise and returns
\* zero entries, confidence 0.0, a warning naming the failure, the
\* manual-review suggestion and the document_type it was given.
C3_GatewayDegrades ==
  C3_CallFailed
    => /\ ~g_out.raised
       /\ g_out.value.t = "dict"
       /\ g_out.value.v.entries = PyList(<<>>)
       /\ g_out.value.v.extraction_confidence = PyNum(0)
       /\ Len(g_out.value.v.warnings.v) >= 1
       /\ \E e \in {"APIConnectionError", "TypeError", "JSONDecodeError"} :
            /\ g_out.value.v.warnings.v[1] = PyStr(<<"AI processing failed: ", e>>)
            /\ g_service.raises => e = g_service.error
       /\ g_out.value.v.suggestions = PyList(<< PyStr("Manual review required") >>)
       /\ g_out.value.v.document_type = PyStr(g_document_type)

\* A call whose content was not JSON, made for a fuel receipt with tables
C3_Witness ==
  /\ C3_CallFailed
  /\ ~g_service.raises
  /\ g_service.content # None
  /\ g_document_type = "fuel_receipt"
  /\ Len(g_tables) > 0
  /\ g_out.value.v.extraction_confidence = PyNum(0)

\* C10: Bounded request.  The request carries the first 5000 characters of
\* the text at most (a prefix of it), the first 3 tables at most, in their
\* order, and the document_type.
C10_RequestBounded ==
  (gpc = "done" /\ g_out.prompt # None)
    => LET sent == g_out.prompt
       IN  /\ Len(sent.text) <= 5000
           /\ Len(sent.text) = Min(5000, Len(g_text))
           /\ \A k \in 1..Len(sent.text) : sent.text[k] = g_text[k]
           /\ sent.document_type = g_document_type
           /\ IF Len(g_tables) = 0
                THEN sent.table_data = "No tables found"
                ELSE /\ Len(sent.table_data.json) <= 3
                     /\ Len(sent.table_data.json) = Min(3, Len(g_tables))
                     /\ \A k \in 1..Len(sent.table_data.json) :
                          sent.table_data.json[k] = g_tables[k]

\* A request built from a text longer than 5000 characters and four tables
C10_Witness ==
  /\ gpc = "done"
  /\ g_out.prompt # None
  /\ Len(g_text) > 5000
  /\ Len(g_tables) > 3
  /\ Len(g_out.prompt.text) = 5000

\* ---- Single-document pipeline (SpecPipeline) ---------------------------

\* C4: Schema violations degrade.  A response that is JSON but not a
\* StructuredExtractionResult makes the gateway return the degraded result,
\* and the pipeline does not raise because of it.
C4_SchemaViolationDegrades ==
  (ppc = "done" /\ p_service \in SchemaViolations /\ p_out.prompt # None)
    => /\ ~p_out.raised
       /\ ~p_out.raised =>
            LET returned == p_out.value.carbon_data.v
            IN  /\ {"entries", "extraction_confidence", "warnings"} \subseteq DOMAIN returned
                /\ returned.entries = PyList(<<>>)
                /\ returned.extraction_confidence = PyNum(0)
                /\ Len(returned.warnings.v) >= 1

\* C5: Table unification is count-additive.  tables_found is the number of
\* native tables plus tabula's tables plus camelot's tables.
C5_TablesCountAdditive ==
  (ppc = "done" /\ ~p_out.raised)
    => p_out.value.tables_found =
         Len(extract_text_with_pdfplumber(p_file).tables)
         + Len(extract_with_tabula(p_file))
         + Len(extract_with_camelot(p_file))

\* Length of s without its leading and trailing whitespace
TrimmedLength(s) ==
  LET leading  == Cardinality({ k \in 1..Len(s) :
                                  \A j \in 1..k : s[j] \in Whitespace })
      trailing == Cardinality({ k \in 1..Len(s) :
                                  \A j \in k..Len(s) : s[j] \in Whitespace })
  IN  IF leading = Len(s) THEN 0 ELSE Len(s) - leading - trailing

C6_OcrInvoked ==
  \E k \in 1..Len(p_out.calls) : p_out.calls[k] = "ocr_with_pytesseract"

\* C6: OCR decision.  The OCR adapter is invoked iff the native text has
\* fewer than 100 characters once trimmed; both alternate table adapters
\* are invoked either way, after the native adapter.
C6_OcrIffShortText ==
  ppc = "done"
    => /\ C6_OcrInvoked
            <=> TrimmedLength(extract_text_with_pdfplumber(p_file).text) < 100
       /\ ~p_out.raised =>
            (p_out.value.processing_results.ocr # None <=> C6_OcrInvoked)
       /\ p_out.calls[1] = "extract_text_with_pdfplumber"
       /\ \E k \in 2..Len(p_out.calls) : p_out.calls[k] = "extract_with_tabula"
       /\ \E k \in 2..Len(p_out.calls) : p_out.calls[k] = "extract_with_camelot"

\* OCR ran on a native text of 100 characters or more that trims to fewer
C6_Witness ==
  /\ ppc = "done"
  /\ C6_OcrInvoked
  /\ Len(extract_text_with_pdfplumber(p_file).text) >= 100

\* C7: Primary-text selection.  The recorded method is ocr iff OCR ran and
\* its text is longer than the native text, else the native method
\* (recorded as 'pdfplumber'); the primary text is the text of the method
\* recorded.
C7_PrimaryTextSelection ==
  (ppc = "done" /\ ~p_out.raised)
    => LET rec    == p_out.value
           native == rec.processing_results.pdfplumber.text
           ocr    == rec.processing_results.ocr
           ocr_longer == ocr # None /\ Len(ocr.text) > Len(native)
       IN  /\ rec.extraction_method = "ocr" <=> ocr_longer
           /\ rec.extraction_method \in {"ocr", "pdfplumber"}
           /\ ocr_longer =>
                (rec.text_length = Len(ocr.text) /\ p_out.prompt.text = ocr.text)
           /\ ~ocr_longer =>
                (rec.text_length = Len(native) /\ p_out.prompt.text = native)

\* OCR ran and produced a text exactly as long as the native text
C7_Witness ==
  /\ ppc = "done"
  /\ ~p_out.raised
  /\ p_out.value.processing_results.ocr # None
  /\ Len(p_out.value.processing_results.ocr.text)
       = Len(p_out.value.processing_results.pdfplumber.text)
  /\ Len(p_out.value.processing_results.ocr.text) > 0
  /\ p_out.value.extraction_method = "pdfplumber"

\* ---- Document classifier (SpecClassify) --------------------------------

C8_FamilyOrder ==
  <<"fuel_receipt", "utility_bill", "travel_expense", "purchase_invoice">>

\* The lower-cased filename holds a filename keyword of the category
C8_FilenameFamily(category) ==
  \E k \in 1..Len(FilenameRules) :
     /\ FilenameRules[k].category = category
     /\ AnyWordIn(Lower(filename), FilenameRules[k].words)

\* The lower-cased text holds a content keyword of the category
C8_ContentFamily(category) ==
  \E k \in 1..Len(ContentRules) :
     /\ ContentRules[k].category = category
     /\ AnyWordIn(Lower(text), ContentRules[k].words)

C8_FilenameMatchesSome == \E k \in 1..4 : C8_FilenameFamily(C8_FamilyOrder[k])

\* C8: Classifier priority.  When the filename matches some family, the
\* result is the category of the first family, in the order fuel_receipt,
\* utility_bill, travel_expense, purchase_invoice, that matches the
\* lower-cased filename, whatever the text is.
C8_FilenameWins ==
  (cpc = "done" /\ C8_FilenameMatchesSome)
    => \E k \in 1..4 :
         /\ C8_FilenameFamily(C8_FamilyOrder[k])
         /\ \A j \in 1..(k - 1) : ~C8_FilenameFamily(C8_FamilyOrder[j])
         /\ doc_type = C8_FamilyOrder[k]

\* The filename matches only the invoice family, the text the fuel family
C8_Witness ==
  /\ cpc = "done"
  /\ C8_FilenameFamily("purchase_invoice")
  /\ \A j \in 1..3 : ~C8_FilenameFamily(C8_FamilyOrder[j])
  /\ C8_ContentFamily("fuel_receipt")
  /\ doc_type = "purchase_invoice"

\* The lower-cased text holds a keyword of the invoice/bill family
C9_TextNamesInvoice ==
  \E k \in 1..Len(FilenameRules) :
     /\ FilenameRules[k].category = "purchase_invoice"
     /\ AnyWordIn(Lower(text), FilenameRules[k].words)

\* C9 as stated: with no filename match, the text is matched against the
\* same four families as the filename (the content keywords of fuel_receipt,
\* utility_bill and travel_expense, and the invoice/bill keywords), in the
\* same order; the result is other only if the text matches none of the
\* four, and text matching only the invoice/bill family yields
\* purchase_invoice.
C9_SameFamilies ==
  (cpc = "done" /\ ~C8_FilenameMatchesSome)
    => LET matches(k) == IF k <= 3 THEN C8_ContentFamily(C8_FamilyOrder[k])
                                   ELSE C9_TextNamesInvoice
       IN  IF \E k \in 1..4 : matches(k)
             THEN \E k \in 1..4 : /\ matches(k)
                                  /\ \A j \in 1..(k - 1) : ~matches(j)
                                  /\ doc_type = C8_FamilyOrder[k]
             ELSE doc_type = "other"

\* C9 amended: with no filename match, the text is matched against the
\* three content families fuel_receipt, utility_bill, travel_expense (with
\* the content keyword lists), in that order; the result is other when none
\* of the three matches, and is never purchase_invoice.
C9_ContentFamilies ==
  (cpc = "done" /\ ~C8_FilenameMatchesSome)
    => /\ IF \E k \in 1..3 : C8_ContentFamily(C8_FamilyOrder[k])
            THEN \E k \in 1..3 :
                   /\ C8_ContentFamily(C8_FamilyOrder[k])
                   /\ \A j \in 1..(k - 1) : ~C8_ContentFamily(C8_FamilyOrder[j])
                   /\ doc_type = C8_FamilyOrder[k]
            ELSE doc_type = "other"
       /\ doc_type # "purchase_invoice"

\* No filename match and a text matching only the invoice/bill family
C9_Witness ==
  /\ cpc = "done"
  /\ ~C8_FilenameMatchesSome
  /\ C9_TextNamesInvoice
  /\ \A k \in 1..3 : ~C8_ContentFamily(C8_FamilyOrder[k])
  /\ doc_type = "other"


\* ---- Degraded documents in a batch (Spec) -------------------------------
\* Where the record of the k-th path sits in results: every earlier path
\* whose write raised left two entries behind
EntryPosition(k) ==
  k + Cardinality({ j \in 1..(k - 1) : outcomes[j] = "write_raised" })

WrittenCompletely(k) ==
  \E d \in 1..Len(disk) :
     /\ disk[d].name = OutputFile(pdf_paths[k])
     /\ disk[d].complete
     /\ disk[d].content = results[EntryPosition(k)]

\* C11: every document whose extraction call degraded appears in results as a
\* document record, not an error placeholder, with requires_review true and
\* entries_extracted 0, and its <stem>_processed.json file is written.
C11_DegradedNeverDropped ==
  \A k \in 1..idx :
     degraded_log[k] =>
        /\ EntryPosition(k) <= Len(results)
        /\ ~IsErrorEntry(results[EntryPosition(k)])
        /\ results[EntryPosition(k)].summary.requires_review
        /\ results[EntryPosition(k)].summary.entries_extracted = 0
        /\ WrittenCompletely(k)

\* The part of C11 that does not depend on the write
C11_DegradedRecorded ==
  \A k \in 1..idx :
     degraded_log[k] =>
        /\ EntryPosition(k) <= Len(results)
        /\ ~IsErrorEntry(results[EntryPosition(k)])
        /\ results[EntryPosition(k)].summary.requires_review
        /\ results[EntryPosition(k)].summary.entries_extracted = 0

C11_DegradedWritten ==
  \E k \in 1..idx : degraded_log[k] /\ outcomes[k] = "ok" /\ WrittenCompletely(k)


\* ---- The batch summary (Spec) ------------------------------------------
\* C12: success_rate is successful / total_files when total_files > 0 and 0
\* for an empty batch; an empty batch returns total_files = 0, successful = 0,
\* failed = 0, success_rate = 0 and results = [] without raising; a batch in
\* which every item failed has success_rate 0.
C12_SuccessRate ==
  /\ (bpc \in {"done", "raised"} /\ N = 0) => bpc = "done"
  /\ bpc = "done" =>
       LET rate == batch_summary.success_rate
       IN  /\ rate.den >= 1
           /\ batch_summary.total_files = N
           /\ N > 0 => rate.num * N = batch_summary.successful * rate.den
           /\ N = 0 => /\ rate.num = 0
                       /\ batch_summary.successful = 0
                       /\ batch_summary.failed = 0
                       /\ batch_summary.results = <<>>
           /\ (N > 0 /\ batch_summary.failed = N) => rate.num = 0

C12_Witness ==
  /\ bpc = "done"
  /\ N > 1
  /\ batch_summary.successful > 0
  /\ batch_summary.failed > 0
  /\ batch_summary.success_rate.num * N
       = batch_summary.successful * batch_summary.success_rate.den


SummaryWrites == { d \in 1..Len(disk) : disk[d].name = SummaryFile }

\* C13: the batch always completes and writes batch_summary.json exactly
\* once, whatever the per-item failures, and only after every input has been
\* attempted and every successful item's per-document file has been written.
C13_SummaryAlwaysWritten ==
  /\ bpc # "raised"
  /\ Cardinality(SummaryWrites) <= 1
  /\ \A d \in SummaryWrites :
        /\ disk[d].complete
        /\ d = Len(disk)
        /\ idx = N
        /\ \A k \in 1..N : outcomes[k] = "ok" => WrittenCompletely(k)
  /\ bpc = "done" => Cardinality(SummaryWrites) = 1

\* What is left of C13 when no record holds a value json rejects
C13_SummaryWhenEncodable ==
  (\A k \in 1..Len(results) : EntryEncodable(results[k])) =>
     /\ bpc # "raised"
     /\ bpc = "done" => /\ Cardinality(SummaryWrites) = 1
                        /\ \A d \in SummaryWrites : disk[d].complete /\ d = Len(disk)


\* ---- Frame of table unification (SpecPipeline) -------------------------
\* C17: after process_pdf_comprehensive the table list in the native
\* (pdfplumber) diagnostic result holds exactly the tables the native adapter
\* returned, however many alternate-adapter tables were merged.
C17_NativeTablesUnchanged ==
  (ppc = "done" /\ ~p_out.raised) =>
     p_out.value.processing_results.pdfplumber.tables
       = extract_text_with_pdfplumber(p_file).tables

\* What the code does instead: the diagnostic list is the unified list
C17_NativeTablesAliased ==
  (ppc = "done" /\ ~p_out.raised) =>
     /\ Len(p_out.value.processing_results.pdfplumber.tables)
          = p_out.value.tables_found
     /\ Len(p_out.value.processing_results.pdfplumber.tables)
          = Len(extract_text_with_pdfplumber(p_file).tables)
            + p_out.value.processing_results.tabula_tables


\* ---- OCR failures (SpecPipeline) ---------------------------------------
OcrFailedPages(file) ==
  { k \in 1..Len(file.pages) : file.pages[k].ocr = None }

OcrFailed(file) == ~file.opens \/ OcrFailedPages(file) # {}

OcrFailedTotally(file) ==
  ~file.opens \/ OcrFailedPages(file) = 1..Len(file.pages)

\* The OCR result keeps exactly the pages that did not fail, in page order,
\* each with its recognised text
OcrKeepsOtherPages(file, ocr_result) ==
  /\ \A i \in 1..Len(ocr_result.pages) :
        /\ ocr_result.pages[i].page_number \in 1..Len(file.pages)
        /\ ocr_result.pages[i].page_number \notin OcrFailedPages(file)
        /\ ocr_result.pages[i].text
             = file.pages[ocr_result.pages[i].page_number].ocr.text
        /\ \A j \in 1..(i - 1) :
              ocr_result.pages[j].page_number < ocr_result.pages[i].page_number
  /\ file.opens =>
       \A k \in (1..Len(file.pages)) \ OcrFailedPages(file) :
          \E i \in 1..Len(ocr_result.pages) : ocr_result.pages[i].page_number = k
  /\ Len(ocr_result.confidence) = Len(ocr_result.pages)

OcrFailureEffects ==
  LET native == extract_text_with_pdfplumber(p_file)
      record == p_out.value
  IN  /\ OcrFailedTotally(p_file) =>
           /\ record.extraction_method = "pdfplumber"
           /\ record.text_length = Len(native.text)
           /\ p_out.prompt.text = Take(native.text, TextBudget)
           /\ record.processing_results.ocr.pages = <<>>
           /\ record.processing_results.ocr.confidence = <<>>
      /\ OcrKeepsOtherPages(p_file, record.processing_results.ocr)

\* C15: when the native text is shorter than 100 characters and the OCR
\* adapter fails, for the whole document or for any subset of pages, the
\* pipeline completes without raising; on total failure the primary text is
\* the native text, extraction_method is the native one and the OCR
\* diagnostics hold no page and no confidence value; on a per-page failure
\* only the failing pages are absent from the OCR result.
C15_OcrFailureContained ==
  (ppc = "done" /\ C6_OcrInvoked /\ OcrFailed(p_file)) =>
     /\ ~p_out.raised
     /\ OcrFailureEffects

\* The same with the runs set aside that raise after the OCR step
C15_OcrFailureEffects ==
  (ppc = "done" /\ C6_OcrInvoked /\ OcrFailed(p_file) /\ ~p_out.raised) =>
     OcrFailureEffects

\* Every raise of such a run comes from serialising tables or from reading
\* the service's answer, never from the OCR step
C15_RaiseNotFromOcr ==
  (ppc = "done" /\ C6_OcrInvoked /\ OcrFailed(p_file) /\ p_out.raised) =>
     \/ \E k \in 1..Min(TableBudget, Len(extract_text_with_pdfplumber(p_file).tables)
                                      + Len(extract_with_tabula(p_file))) :
           ~JsonEncodable(CombineTables(extract_text_with_pdfplumber(p_file),
                                        extract_with_tabula(p_file),
                                        extract_with_camelot(p_file))[k])
     \/ /\ ~TryExtract(p_service).raised
        /\ PyLessThan(PyGet(TryExtract(p_service).value, "extraction_confidence",
                            PyNum(0)).value, ReviewThreshold).raised

C15_PartialFailureReturned ==
  /\ ppc = "done"
  /\ ~p_out.raised
  /\ C6_OcrInvoked
  /\ OcrFailedPages(p_file) # {}
  /\ Len(p_out.value.processing_results.ocr.pages) > 0


\* ---- Alternate schema validation (SpecValidate) -------------------------
InSeq(x, seq) == \E k \in 1..Len(seq) : seq[k] = x

MappedRecord(mapped_data) ==
  PyGet(mapped_data, "mapped_data", PyDict(EmptyDict)).value

AbsentOrUnknown(data, field) ==
  \/ field \notin DOMAIN data.v
  \/ PyEqualsStr(data.v[field], "unknown")

\* C14: validate_mapped_data lists a required field in missing_fields iff the
\* field is absent from the mapped record or equals "unknown"; is_valid iff
\* missing_fields is empty; process_file sets requires_review iff
\* missing_fields is non-empty, and success = not requires_review.
C14_MissingIffAbsentOrUnknown ==
  /\ v_out # None =>
       /\ \A k \in 1..Len(required_fields) :
             InSeq(required_fields[k], v_out.missing_fields)
               <=> AbsentOrUnknown(MappedRecord(v_mapped), required_fields[k])
       /\ v_out.is_valid <=> v_out.missing_fields = <<>>
  /\ v_file # None =>
       /\ \A k \in 1..Len(required_fields) :
             InSeq(required_fields[k], v_file.missing_fields)
               <=> AbsentOrUnknown(MappedRecord(v_file.data), required_fields[k])
       /\ v_file.requires_review <=> v_file.missing_fields # <<>>
       /\ v_file.success <=> ~v_file.requires_review

\* What the code's test amounts to: absent, a false value (None, 0, 0.0, '')
\* or "unknown"
C14_MissingIffFalsyOrUnknown ==
  /\ v_out # None =>
       /\ \A k \in 1..Len(required_fields) :
             InSeq(required_fields[k], v_out.missing_fields)
               <=> \/ AbsentOrUnknown(MappedRecord(v_mapped), required_fields[k])
                   \/ ~PyTruthy(MappedRecord(v_mapped).v[required_fields[k]])
       /\ v_out.is_valid <=> v_out.missing_fields = <<>>
  /\ v_file # None =>
       /\ v_file.requires_review <=> v_file.missing_fields # <<>>
       /\ v_file.success <=> ~v_file.requires_review

C14_PresentFieldReported ==
  /\ v_out # None
  /\ InSeq("amount", v_out.missing_fields)
  /\ ~AbsentOrUnknown(MappedRecord(v_mapped), "amount")


====
